---- MODULE Spec2Model ----
(***************************************************************************)
(* The browser-side chat page of assets/js/app.js as a state machine: the  *)
(* session pointer and the per-session history records in localStorage,    *)
(* the in-memory SESSION_ID / chatMessages pair, the message view, the     *)
(* history sidebar, and the requests and timers the handlers leave         *)
(* outstanding between two turns of the event loop.                        *)
(*                                                                         *)
(* The page is single-threaded: a handler runs to its next await without   *)
(* interleaving, so each action below is one such run.  User input is      *)
(* taken to arrive after the window load event has run initialize.         *)
(***************************************************************************)
EXTENDS Integers, Sequences, FiniteSets, TLC

\* ---------------------------------------------------------------- bounds
\* session ids Date.now()+Math.random() may mint during one run
MaxSessions == 2
\* messages added to a transcript beyond those it starts with
MaxMessages == 2
\* requests and timers that may be outstanding together
MaxInFlight == 2
\* ticks of the wall clock (new Date()) during one run
MaxClock == 1

\* ------------------------------------------------------- program constants
\* trimChatHistory: if (chatMessages.length > 50) slice(-50)
TrimLimit == 50
\* handleFileSelect: file.size > 50 * 1024 * 1024
MaxFileSize == 52428800
\* progress += 5, every 500 ms
ProgressStep == 5
\* if (progress <= 90)
ProgressCap == 90

\* the value of `let SESSION_ID;` before initialize, and of a missing argument;
\* `chat_history_${undefined}` is the storage key it names
undefined == 0
\* what localStorage.getItem answers for a key that is not stored
null == 0 - 1

SessionIds == 1..MaxSessions
Keys == SessionIds \cup {undefined}

\* ------------------------------------------------------------------ texts
\* A text is a sequence of pieces, each a run of characters: a word (a run
\* without white space, brackets, bars or leading digits), a blank, a decimal
\* digit, or one of the literal pieces "[IMA", "GE:", "|" and "]", of which the
\* inline image markers [IMAGE:filename|page] are made.
Word(w) == [kind |-> "word", s |-> w, n |-> 0]
Blank == [kind |-> "blank", s |-> " ", n |-> 0]
Lit(s) == [kind |-> "lit", s |-> s, n |-> 0]
Digit(d) == [kind |-> "digit", s |-> "", n |-> d]
\* the text [IMAGE:f|pg] of a marker, pg a single digit
ImageTag(f, pg) ==
    << Lit("[IMA"), Lit("GE:"), Word(f), Lit("|"), Digit(pg), Lit("]") >>

\* what the user may have typed when the send handler runs
Inputs == { <<>>, <<Blank>>, <<Blank, Word("quiz-please"), Blank>> }
\* data.answer of a 2xx reply of POST /api/query
Answers == { <<Word("a1")>> \o ImageTag("guide.pdf", 3) }
\* the inline fallback message of sendQuestion's catch branch
FallbackText == <<Word("error-try-again")>>

RECURSIVE trimStart(_)
trimStart(t) ==
    IF t # <<>> /\ Head(t) = Blank THEN trimStart(Tail(t)) ELSE t

RECURSIVE trimEnd(_)
trimEnd(t) ==
    IF t # <<>> /\ t[Len(t)] = Blank THEN trimEnd(SubSeq(t, 1, Len(t) - 1)) ELSE t

\* String.prototype.trim
trim(t) == trimEnd(trimStart(t))

\* event.target.files[0] when no file was picked; a file is its name, character
\* by character, and its size in bytes
NoFile == [name |-> <<>>, size |-> 0]

\* a request handed to fetch: the endpoint, and for the images endpoint the
\* file name and page of its path
Request(path, filename, pageNumber) ==
    [path |-> path, filename |-> filename, pageNumber |-> pageNumber]

\* the first "|" of the text at or after position i, or 0
RECURSIVE firstBar(_, _)
firstBar(text, i) ==
    IF i > Len(text) THEN 0
    ELSE IF text[i] = Lit("|") THEN i ELSE firstBar(text, i + 1)

\* the last position of the run of digits that starts at position i (i - 1
\* when no digit stands there)
RECURSIVE digitsEnd(_, _)
digitsEnd(text, i) ==
    IF i <= Len(text) /\ text[i].kind = "digit" THEN digitsEnd(text, i + 1) ELSE i - 1

\* parseInt of a run of digits
RECURSIVE parseInt(_)
parseInt(digits) ==
    IF digits = <<>> THEN 0
    ELSE parseInt(SubSeq(digits, 1, Len(digits) - 1)) * 10 + digits[Len(digits)].n

\* /\[IMAGE:([^\|]+)\|(\d+)\]/ tried at position i: the position of the closing
\* bracket of the match (0 without a match) and its two groups.  [^\|]+ takes
\* everything up to the first bar, brackets included.
NoMatch == [end |-> 0, filename |-> <<>>, pageNumber |-> 0]
imageTagRegex(text, i) ==
    LET bar == firstBar(text, i + 2)
        last == digitsEnd(text, bar + 1)
    IN  IF /\ i + 1 <= Len(text)
           /\ text[i] = Lit("[IMA")
           /\ text[i + 1] = Lit("GE:")
           /\ bar > i + 2
           /\ last > bar
           /\ last + 1 <= Len(text)
           /\ text[last + 1] = Lit("]")
        THEN [ end |-> last + 1,
               filename |-> SubSeq(text, i + 2, bar - 1),
               pageNumber |-> parseInt(SubSeq(text, bar + 1, last)) ]
        ELSE NoMatch

\* while ((match = imageTagRegex.exec(text)) !== null): the matches from
\* position i on, each search resuming behind the previous match
RECURSIVE execAll(_, _)
execAll(text, i) ==
    IF i > Len(text) THEN <<>>
    ELSE LET match == imageTagRegex(text, i)
         IN  IF match.end > 0
             THEN <<match>> \o execAll(text, match.end + 1)
             ELSE execAll(text, i + 1)

\* text.replace(imageTagRegex, ''): the text from position i on without the matches
RECURSIVE replaceAll(_, _)
replaceAll(text, i) ==
    IF i > Len(text) THEN <<>>
    ELSE LET match == imageTagRegex(text, i)
         IN  IF match.end > 0
             THEN replaceAll(text, match.end + 1)
             ELSE <<text[i]>> \o replaceAll(text, i + 1)

\* processImageTags: the text with every match removed ...
processImageTags(text) == replaceAll(text, 1)

\* ... and the (filename, page) pairs it calls loadAndDisplayImages for
imageRequests(text) ==
    [ k \in 1..Len(execAll(text, 1)) |->
        [ filename |-> execAll(text, 1)[k].filename,
          pageNumber |-> execAll(text, 1)[k].pageNumber ] ]

\* loadAndDisplayImages: the fetch of /api/images/<filename>/<page>, one for
\* every marker of the text, in the order of the markers
imageFetches(text) ==
    [ i \in 1..Len(imageRequests(text)) |->
        Request("/api/images", imageRequests(text)[i].filename,
                imageRequests(text)[i].pageNumber) ]

\* the fetches issued while the nodes of a message list are built
RECURSIVE fetchesOfAll(_)
fetchesOfAll(msgs) ==
    IF msgs = <<>> THEN <<>>
    ELSE (IF Head(msgs).isUser THEN <<>> ELSE imageFetches(Head(msgs).text))
         \o fetchesOfAll(Tail(msgs))

Message(text, isUser) == [text |-> text, isUser |-> isUser]

\* the node addMessageToUI appends: the displayed text, the role, and the
\* image requests issued for the node
messageDiv(text, isUser) ==
    [ text |-> IF isUser THEN text ELSE processImageTags(text),
      isUser |-> isUser,
      images |-> IF isUser THEN <<>> ELSE imageRequests(text) ]

\* the nodes of a whole message list, in list order
RenderAll(msgs) == [ i \in 1..Len(msgs) |-> messageDiv(msgs[i].text, msgs[i].isUser) ]

\* Array.prototype.slice(-n)
sliceLast(msgs, n) ==
    IF Len(msgs) <= n THEN msgs ELSE SubSeq(msgs, Len(msgs) - n + 1, Len(msgs))

\* ---------------------------------------------------------------- storage
\* The item stored under chat_history_<key>, as JSON.parse sees it:
\*   "ok"          {messages, lastUpdated, sessionId}
\*   "nodate"      an object with messages and no lastUpdated
\*   "nomessages"  an object without a messages field
\*   "null"        the JSON text null
\*   "unparseable" text JSON.parse throws on
\*   "absent"      no item
Absent == [kind |-> "absent", messages |-> <<>>, lastUpdated |-> 0, sessionId |-> undefined]
History(msgs, at, sid) ==
    [kind |-> "ok", messages |-> msgs, lastUpdated |-> at, sessionId |-> sid]
NoDate(msgs) == [kind |-> "nodate", messages |-> msgs, lastUpdated |-> 0, sessionId |-> undefined]
Malformed(k) == [kind |-> k, messages |-> <<>>, lastUpdated |-> 0, sessionId |-> undefined]

\* JSON.parse(item) returns an object (rather than throwing or giving null)
ParsesToObject(item) == item.kind \in {"ok", "nodate", "nomessages"}
\* history.messages || []
messagesOrEmpty(item) == IF item.kind \in {"ok", "nodate"} THEN item.messages ELSE <<>>

\* the empty effect log of a handler run
\* (getItem calls, setItem calls, the outcomes of the history setItem calls, the
\* history keys removed, whether the message view was emptied, the errors shown,
\* the requests handed to fetch, the file and the input.value the handler was given)
NoEffects ==
    [ reads |-> 0, writes |-> 0, saves |-> <<>>, removed |-> {}, cleared |-> FALSE,
      errors |-> <<>>, requests |-> <<>>, file |-> NoFile, input |-> <<>> ]


\* ------------------------------------------------------------------ state
VARIABLES
    loaded,          \* the window load event has run initialize
    SESSION_ID,      \* let SESSION_ID
    chatMessages,    \* let chatMessages = []
    localStorage,    \* [chat_session_id, chat_history: Keys -> item, order]
    chatContainer,   \* #chatContainer: [welcome, messages, loading]
    errorMessage,    \* #errorMessage: [visible]
    chatHistory,     \* #chatHistory, the sidebar: the summaries last rendered
    sendButton,      \* #sendButton: [disabled]
    minted,          \* session ids minted so far
    now,             \* the wall clock
    queries,         \* outstanding POST /api/query requests: the session_id each was sent with
    resets,          \* outstanding POST /api/reset requests
    uploads,         \* outstanding POST /api/upload-pdf requests
    uploadProgress,  \* #uploadProgress and #progressBarFill: [display, width], the
                     \* running setInterval timers of uploadPDF, each with its
                     \* progress and whether its request is pending, and the
                     \* pending 3 s timers of failed uploads
    reinitTimers,    \* pending setTimeout(initialize ..., 2000) of uploadPDF
    inits,           \* initialize calls awaiting /api/health and /api/init
    lastOp           \* the handler that ran last, its argument and its effects

vars ==
    << loaded, SESSION_ID, chatMessages, localStorage, chatContainer, errorMessage,
       chatHistory, sendButton, minted, now, queries, resets, uploads, uploadProgress,
       reinitTimers, inits, lastOp >>

\* the page a handler starts from: the globals, the storage and the DOM
Page ==
    [ SESSION_ID |-> SESSION_ID,
      chatMessages |-> chatMessages,
      localStorage |-> localStorage,
      chatContainer |-> chatContainer,
      errorMessage |-> errorMessage,
      chatHistory |-> chatHistory,
      sendButton |-> sendButton,
      minted |-> minted,
      now |-> now,
      fx |-> NoEffects ]

\* the upload indicator of the page as served: hidden, no timer running
NoProgress == [display |-> FALSE, width |-> 0, intervals |-> <<>>, hideTimers |-> 0]

\* the welcome screen, as the page's HTML and the two innerHTML templates have it
WelcomeScreen == [welcome |-> TRUE, messages |-> <<>>, loading |-> 0]

\* ---------------------------------------------------------------- helpers
\* showError(message): the banner is shown (its text is kept in the effect log)
\* and hides again when its 5 s timer fires
showError(p, message) ==
    [p EXCEPT !.errorMessage = [visible |-> TRUE],
              !.fx.errors = Append(@, message)]

\* localStorage.getItem(`chat_history_${key}`), counted as a read
historyItem(p, key) == p.localStorage.chat_history[key]

\* getOrCreateSessionId: the id it returns and the page it leaves
getOrCreateSessionId(p) ==
    LET sessionId == p.localStorage.chat_session_id
        read == [p EXCEPT !.fx.reads = @ + 1]
    IN  IF sessionId = null
        THEN [ id |-> p.minted + 1,
               page |-> [read EXCEPT !.localStorage.chat_session_id = p.minted + 1,
                                     !.minted = @ + 1,
                                     !.fx.writes = @ + 1] ]
        ELSE [ id |-> sessionId, page |-> read ]

\* one summary of getAllChatHistories, with the active mark updateChatHistoryList adds
Summary(key, item, at, active) ==
    [ sessionId |-> key,
      lastUpdated |-> IF item.kind = "ok" THEN item.lastUpdated ELSE at,
      messageCount |-> Len(item.messages),
      isActive |-> (key = active) ]

IsListed_anyLength(item) == item.kind \in {"ok", "nodate"}

\* if (data.messages && data.messages.length > 0), inside the try of the scan
IsListed(item) == item.kind \in {"ok", "nodate"} /\ Len(item.messages) > 0

\* histories.sort((a, b) => new Date(b.lastUpdated) - new Date(a.lastUpdated)):
\* a stable sort, most recent first
RECURSIVE insertByDate(_, _)
insertByDate(sorted, h) ==
    IF sorted = <<>> THEN <<h>>
    ELSE IF Head(sorted).lastUpdated >= h.lastUpdated
         THEN <<Head(sorted)>> \o insertByDate(Tail(sorted), h)
         ELSE <<h>> \o sorted

sortByDate_asScanned(hs) == hs

RECURSIVE sortByDate(_)
sortByDate(hs) ==
    IF hs = <<>> THEN <<>>
    ELSE insertByDate(sortByDate(SubSeq(hs, 1, Len(hs) - 1)), hs[Len(hs)])

RECURSIVE scanKeys_abortOnThrow(_, _, _, _)
scanKeys_abortOnThrow(ls, order, at, active) ==
    IF order = <<>> THEN <<>>
    ELSE LET key == Head(order)
             item == ls.chat_history[key]
             rest == scanKeys_abortOnThrow(ls, Tail(order), at, active)
         IN  CASE item.kind \in {"unparseable", "null"} -> <<>>
               [] IsListed(item) -> <<Summary(key, item, at, active)>> \o rest
               [] OTHER -> rest

\* the summaries pushed while scanning the keys in storage order; what
\* JSON.parse or data.messages throws is caught inside the loop, key by key
RECURSIVE scanKeys(_, _, _, _)
scanKeys(ls, order, at, active) ==
    IF order = <<>> THEN <<>>
    ELSE LET key == Head(order)
             item == ls.chat_history[key]
             rest == scanKeys(ls, Tail(order), at, active)
         IN  IF IsListed(item) THEN <<Summary(key, item, at, active)>> \o rest ELSE rest

\* getAllChatHistories
getAllChatHistories(ls, at, active) == sortByDate(scanKeys(ls, ls.order, at, active))

\* the keys localStorage.key(i) yields that start with chat_history_
StoredKeys(ls) == { k \in Keys : ls.chat_history[k].kind # "absent" }

\* updateChatHistoryList
updateChatHistoryList(p) ==
    [p EXCEPT !.chatHistory = getAllChatHistories(p.localStorage, p.now, p.SESSION_ID),
              !.fx.reads = @ + Cardinality(StoredKeys(p.localStorage))]

\* addMessageToUI
addMessageToUI(p, text, isUser) ==
    [p EXCEPT !.chatContainer.welcome = FALSE,
              !.chatContainer.messages = Append(@, messageDiv(text, isUser)),
              !.fx.requests = @ \o (IF isUser THEN <<>> ELSE imageFetches(text))]

\* restoreMessages: appends every message of the list to the view
restoreMessages(p) ==
    [p EXCEPT !.chatContainer.welcome = FALSE,
              !.chatContainer.messages = @ \o RenderAll(p.chatMessages),
              !.fx.requests = @ \o fetchesOfAll(p.chatMessages)]

\* the outcome of the next localStorage.setItem of a history record
WriteOutcomes == {"ok", "quota", "other"}
nextOutcome(w) == IF w = <<>> THEN "other" ELSE Head(w)

trimmed_oldest(msgs) == SubSeq(msgs, 1, TrimLimit)

\* chatMessages.slice(-50)
trimmed(msgs) == sliceLast(msgs, TrimLimit)

\* saveChatHistory and trimChatHistory; w holds the outcomes of the setItem calls
RECURSIVE saveChatHistory(_, _)
RECURSIVE trimChatHistory(_, _)
saveChatHistory_alerting(p, w) ==
    LET tried == [p EXCEPT !.fx.writes = @ + 1, !.fx.saves = Append(@, nextOutcome(w))]
    IN  IF nextOutcome(w) = "ok"
        THEN updateChatHistoryList(
                 [tried EXCEPT !.localStorage.chat_history[p.SESSION_ID] =
                                   History(p.chatMessages, p.now, p.SESSION_ID)])
        ELSE showError(tried, "save-failed")

trimChatHistory_atLimit(p, w) ==
    IF Len(p.chatMessages) >= TrimLimit
    THEN saveChatHistory([p EXCEPT !.chatMessages = trimmed(@)], w)
    ELSE p

saveChatHistory(p, w) ==
    LET tried == [p EXCEPT !.fx.writes = @ + 1, !.fx.saves = Append(@, nextOutcome(w))]
    IN  CASE nextOutcome(w) = "ok" ->
               updateChatHistoryList(
                   [tried EXCEPT !.localStorage.chat_history[p.SESSION_ID] =
                                     History(p.chatMessages, p.now, p.SESSION_ID)])
          [] nextOutcome(w) = "quota" -> trimChatHistory(tried, Tail(w))
          [] OTHER -> tried

trimChatHistory(p, w) ==
    IF Len(p.chatMessages) > TrimLimit
    THEN saveChatHistory([p EXCEPT !.chatMessages = trimmed(@)], w)
    ELSE p

\* addMessage
addMessage(p, text, isUser, w) ==
    saveChatHistory(
        addMessageToUI([p EXCEPT !.chatMessages = Append(@, Message(text, isUser))],
                       text, isUser),
        w)


\* loadChatHistory(sessionId), the declaration at line 554.  The script declares
\* loadChatHistory twice; the later declaration is the one every call reaches,
\* initialize's argument-less call included.
isAlreadyShown_never(p, sessionId) == FALSE

\* if (sessionId === SESSION_ID) return
isAlreadyShown(p, sessionId) == sessionId = p.SESSION_ID

isMissing_never(savedHistory) == FALSE

\* if (!savedHistory)
isMissing(savedHistory) == savedHistory.kind = "absent"

switchPointer_memoryOnly(p, sessionId) == [p EXCEPT !.SESSION_ID = sessionId]

\* SESSION_ID = sessionId; localStorage.setItem('chat_session_id', sessionId)
switchPointer(p, sessionId) ==
    [p EXCEPT !.SESSION_ID = sessionId,
              !.localStorage.chat_session_id = sessionId,
              !.fx.writes = @ + 1]

clearChatContainer_keep(p) == [p EXCEPT !.chatContainer.welcome = FALSE]

\* chatContainer.innerHTML = ''
clearChatContainer(p) ==
    [p EXCEPT !.chatContainer = [welcome |-> FALSE, messages |-> <<>>, loading |-> 0],
              !.fx.cleared = TRUE]

loadChatHistory(p, sessionId) ==
    IF isAlreadyShown(p, sessionId) THEN p
    ELSE
      LET savedHistory == historyItem(p, sessionId)
          read == [p EXCEPT !.fx.reads = @ + 1]
          switched == switchPointer(read, sessionId)
          cleared == clearChatContainer(
                         [switched EXCEPT !.chatMessages = messagesOrEmpty(savedHistory)])
      IN  CASE isMissing(savedHistory) -> showError(read, "history-not-found")
            [] savedHistory.kind = "unparseable" -> showError(read, "history-load-failed")
            [] savedHistory.kind = "null" -> showError(switched, "history-load-failed")
            [] OTHER -> updateChatHistoryList(restoreMessages(cleared))

\* localStorage.removeItem(`chat_history_${key}`)
removeHistory(p, key) ==
    [p EXCEPT !.localStorage.chat_history[key] = Absent,
              !.fx.removed = IF historyItem(p, key).kind = "absent" THEN @ ELSE @ \cup {key}]

startNewSession_keepPointer(p) ==
    LET g == getOrCreateSessionId(p)
    IN  [g.page EXCEPT !.SESSION_ID = g.id]

\* localStorage.removeItem('chat_session_id'); SESSION_ID = getOrCreateSessionId()
startNewSession(p) ==
    LET g == getOrCreateSessionId([p EXCEPT !.localStorage.chat_session_id = null])
    IN  [g.page EXCEPT !.SESSION_ID = g.id]

deleteChatHistory_alwaysFresh(p, sessionId, confirmed) ==
    IF ~confirmed THEN p
    ELSE updateChatHistoryList(
             [startNewSession(removeHistory(p, sessionId))
                 EXCEPT !.chatMessages = <<>>,
                        !.chatContainer = WelcomeScreen,
                        !.fx.cleared = TRUE])

\* deleteChatHistory(event, sessionId), confirm() having answered `confirmed`
deleteChatHistory(p, sessionId, confirmed) ==
    IF ~confirmed THEN p
    ELSE
      LET removed == removeHistory(p, sessionId)
          fresh == [startNewSession(removed) EXCEPT !.chatMessages = <<>>,
                                                    !.chatContainer = WelcomeScreen,
                                                    !.fx.cleared = TRUE]
      IN  updateChatHistoryList(IF sessionId = p.SESSION_ID THEN fresh ELSE removed)

\* initialize up to its first await
initializeStart(p) ==
    LET g == getOrCreateSessionId(p)
    IN  loadChatHistory([g.page EXCEPT !.SESSION_ID = g.id], undefined)

\* initialize after /api/health and /api/init answered (ok) or one of them failed
initializeEnd(p, ok) ==
    IF ok THEN updateChatHistoryList(p) ELSE showError(p, "server-unreachable")

\* sendQuestion up to its await; an accepted question is posted with
\* session_id: SESSION_ID
IsAccepted_untrimmed(input) == input # <<>>

IsAccepted(input) == trim(input) # <<>>

sendQuestionStart(p, input, w) ==
    IF ~IsAccepted(input) THEN showError([p EXCEPT !.fx.input = input], "enter-message")
    ELSE [addMessage([p EXCEPT !.fx.input = input], trim(input), TRUE, w)
             EXCEPT !.sendButton.disabled = TRUE,
                    !.chatContainer.loading = @ + 1,
                    !.fx.requests = Append(@, Request("/api/query", <<>>, 0))]

\* document.getElementById('loading-message'); if (loading) loading.remove()
removeLoading(p) ==
    [p EXCEPT !.chatContainer.loading = IF @ > 0 THEN @ - 1 ELSE 0]

sendQuestionEnd_unreported(p, reply, w) ==
    [(IF reply.ok THEN addMessage(removeLoading(p), reply.answer, FALSE, w)
                  ELSE removeLoading(p))
        EXCEPT !.sendButton.disabled = FALSE]

sendQuestionEnd_noFinally(p, reply, w) ==
    IF reply.ok
    THEN addMessage(removeLoading(p), reply.answer, FALSE, w)
    ELSE addMessage(showError(removeLoading(p), "error-occurred"), FallbackText, FALSE, w)

\* sendQuestion after the await: the try branch, or the catch branch, and finally
sendQuestionEnd(p, reply, w) ==
    LET done == IF reply.ok
                THEN addMessage(removeLoading(p), reply.answer, FALSE, w)
                ELSE addMessage(showError(removeLoading(p), "error-occurred"),
                                FallbackText, FALSE, w)
    IN  [done EXCEPT !.sendButton.disabled = FALSE]

\* resetConversation after its await: fetch resolved (ok) or rejected
resetConversationEnd(p, ok) ==
    IF ~ok THEN showError(p, "reset-failed")
    ELSE LET removed == removeHistory([p EXCEPT !.chatMessages = <<>>], p.SESSION_ID)
         IN  updateChatHistoryList(
                 [startNewSession(removed) EXCEPT !.chatContainer = WelcomeScreen,
                                                  !.fx.cleared = TRUE])

\* sendQuickAction's switch
quickActionMessage(actionType) ==
    CASE actionType = "quiz" -> <<Word("quiz-please")>>
      [] actionType = "term" -> <<Word("explain-a-term")>>
      [] actionType = "past" -> <<Word("past-exam-question")>>
      [] OTHER -> <<>>

\* file.name.toLowerCase().endsWith('.pdf')
lowerChar(c) ==
    CASE c = "A" -> "a" [] c = "P" -> "p" [] c = "D" -> "d" [] c = "F" -> "f"
      [] OTHER -> c
toLowerCase(name) == [i \in 1..Len(name) |-> lowerChar(name[i])]
endsWith(name, suffix) ==
    /\ Len(name) >= Len(suffix)
    /\ SubSeq(name, Len(name) - Len(suffix) + 1, Len(name)) = suffix
IsPdfName(file) == endsWith(toLowerCase(file.name), <<".", "p", "d", "f">>)

fileCheck_nameOnly(file) ==
    CASE file = NoFile -> "none"
      [] ~IsPdfName(file) -> "select-pdf"
      [] OTHER -> "upload"

\* handleFileSelect: "none" without a file, "upload", or the error it shows instead
fileCheck(file) ==
    CASE file = NoFile -> "none"
      [] ~IsPdfName(file) -> "select-pdf"
      [] file.size > MaxFileSize -> "file-too-large"
      [] OTHER -> "upload"


\* ---------------------------------------------------------------- actions
\* what a handler run leaves behind: the page it computed, and its record in lastOp
Commit(p, op, id) ==
    /\ SESSION_ID' = p.SESSION_ID
    /\ chatMessages' = p.chatMessages
    /\ localStorage' = p.localStorage
    /\ chatContainer' = p.chatContainer
    /\ errorMessage' = p.errorMessage
    /\ chatHistory' = p.chatHistory
    /\ sendButton' = p.sendButton
    /\ minted' = p.minted
    /\ lastOp' = [op |-> op, id |-> id, fx |-> p.fx]

\* the i-th message of a long conversation: questions and answers in turn
LongMessage(i) == Message(<<[kind |-> "word", s |-> "m", n |-> i]>>, i % 2 = 1)
LongList(n) == [i \in 1..n |-> LongMessage(i)]

\* the messages of a transcript that do not come from a long conversation
Added(msgs) ==
    Cardinality({ i \in 1..Len(msgs) : msgs[i].text = <<>> \/ msgs[i].text[1].s # "m" })

\* a transcript may take one more message
CanGrow(msgs) == Added(msgs) < MaxMessages

\* a new session id can still be minted, should the handler need one
CanMint(p) == p.localStorage.chat_session_id # null \/ p.minted < MaxSessions

\* the outcomes of the setItem calls of one saveChatHistory: of the first, and
\* of the retry that follows a quota failure of a list longer than TrimLimit
WriteRuns ==
    IF Len(chatMessages) + 1 > TrimLimit
    THEN { <<"ok">>, <<"other">> } \cup { <<"quota", b>> : b \in WriteOutcomes }
    ELSE { <<a>> : a \in WriteOutcomes }

\* the requests and timers outstanding
Outstanding ==
    Len(queries) + resets + Len(uploadProgress.intervals) + uploadProgress.hideTimers
        + reinitTimers + inits

\* the keys of an empty storage, in the order localStorage.key(i) yields them
KeyOrder == [i \in 1..(MaxSessions + 1) |-> i - 1]

FreshPage ==
    /\ SESSION_ID = undefined
    /\ chatMessages = <<>>
    /\ chatContainer = WelcomeScreen
    /\ errorMessage = [visible |-> FALSE]
    /\ chatHistory = <<>>
    /\ sendButton = [disabled |-> FALSE]
    /\ queries = <<>>
    /\ resets = 0
    /\ uploads = 0
    /\ uploadProgress = NoProgress
    /\ reinitTimers = 0
    /\ inits = 0

\* the storage of a first visit
EmptyStorage ==
    [ chat_session_id |-> null,
      chat_history |-> [k \in Keys |-> Absent],
      order |-> KeyOrder ]

\* the storage earlier visits have left: an older conversation, and the pointer
\* at a newer session that has no record yet (a second tab of the page started
\* the newer session while the first one kept saving)
VisitedStorage ==
    [ chat_session_id |-> 2,
      chat_history |->
          [k \in Keys |->
              IF k = 1
              THEN History(<<Message(<<Word("quiz-please")>>, TRUE),
                             Message(FallbackText, FALSE)>>, 0, 1)
              ELSE Absent],
      order |-> KeyOrder ]

\* the script has been evaluated; the load event has not fired yet
Init ==
    /\ loaded = FALSE
    /\ FreshPage
    /\ \/ localStorage = EmptyStorage /\ minted = 0
       \/ localStorage = VisitedStorage /\ minted = 2
    /\ now = 0
    /\ lastOp = [op |-> "none", id |-> undefined, fx |-> NoEffects]

\* window.addEventListener('load', initialize)
PageLoad ==
    /\ ~loaded
    /\ CanMint(Page)
    /\ Commit(initializeStart(Page), "load", undefined)
    /\ loaded' = TRUE
    /\ inits' = inits + 1
    /\ UNCHANGED << now, queries, resets, uploads, uploadProgress, reinitTimers >>

\* the user reloads the page: globals, DOM, requests and timers are gone,
\* localStorage stays
Reload ==
    /\ loaded
    /\ loaded' = FALSE
    /\ SESSION_ID' = undefined
    /\ chatMessages' = <<>>
    /\ chatContainer' = WelcomeScreen
    /\ errorMessage' = [visible |-> FALSE]
    /\ chatHistory' = <<>>
    /\ sendButton' = [disabled |-> FALSE]
    /\ queries' = <<>>
    /\ resets' = 0
    /\ uploads' = 0
    /\ uploadProgress' = NoProgress
    /\ reinitTimers' = 0
    /\ inits' = 0
    /\ lastOp' = [op |-> "reload", id |-> undefined, fx |-> NoEffects]
    /\ UNCHANGED << localStorage, minted, now >>

\* /api/health and /api/init answered, or one of them failed
InitializeDone(ok) ==
    /\ loaded
    /\ inits > 0
    /\ Commit(initializeEnd(Page, ok), "initializeEnd", undefined)
    /\ inits' = inits - 1
    /\ UNCHANGED << loaded, now, queries, resets, uploads, uploadProgress, reinitTimers >>

\* sendQuestion, whichever way it was called
SendQuestion(input, w) ==
    /\ loaded
    /\ IsAccepted(input) => (CanGrow(chatMessages) /\ Outstanding < MaxInFlight)
    /\ Commit(sendQuestionStart(Page, input, w), "sendQuestion", SESSION_ID)
    /\ queries' = IF IsAccepted(input)
                  THEN Append(queries, [session_id |-> SESSION_ID])
                  ELSE queries
    /\ UNCHANGED << loaded, now, resets, uploads, uploadProgress, reinitTimers, inits >>

\* a click on the send button, which a disabled button does not deliver
ClickSend(input, w) ==
    /\ ~sendButton.disabled
    /\ SendQuestion(input, w)

\* handleKeyDown: Enter without Shift in the question box
PressEnter(input, w) == SendQuestion(input, w)

\* sendQuickAction: a card of the welcome screen is clicked
\* the cards the user is taken to click, and a type the switch does not know
QuickActionTypes == {"quiz", "other"}
ClickQuickAction(actionType, w) ==
    /\ loaded
    /\ chatContainer.welcome
    /\ IF quickActionMessage(actionType) = <<>>
       THEN /\ lastOp' = [op |-> "sendQuickAction", id |-> undefined, fx |-> NoEffects]
            /\ UNCHANGED << loaded, SESSION_ID, chatMessages, localStorage, chatContainer,
                            errorMessage, chatHistory, sendButton, minted, now, queries,
                            resets, uploads, uploadProgress, reinitTimers, inits >>
       ELSE SendQuestion(quickActionMessage(actionType), w)

\* the replies POST /api/query may get: a 2xx answer, or a failure
Replies ==
    { [ok |-> TRUE, answer |-> a] : a \in Answers } \cup { [ok |-> FALSE, answer |-> <<>>] }

RemoveAt(seq, i) == SubSeq(seq, 1, i - 1) \o SubSeq(seq, i + 1, Len(seq))

\* the i-th outstanding query is answered
QueryDone(i, reply, w) ==
    /\ loaded
    /\ i \in 1..Len(queries)
    /\ CanGrow(chatMessages)
    /\ Commit(sendQuestionEnd(Page, reply, w),
              IF reply.ok THEN "sendQuestionEnd" ELSE "sendQuestionFailed",
              queries[i].session_id)
    /\ queries' = RemoveAt(queries, i)
    /\ UNCHANGED << loaded, now, resets, uploads, uploadProgress, reinitTimers, inits >>

\* loadChatHistory(sessionId): a sidebar entry is clicked.  The entry may have
\* outlived its record, so the id of any session there has been is admitted.
SwitchSession(sessionId) ==
    /\ loaded
    /\ sessionId <= minted
    /\ Commit(loadChatHistory(Page, sessionId), "loadChatHistory", sessionId)
    /\ UNCHANGED << loaded, now, queries, resets, uploads, uploadProgress, reinitTimers, inits >>

\* deleteChatHistory(event, sessionId): the bin of a sidebar entry is clicked
DeleteSession(sessionId, confirmed) ==
    /\ loaded
    /\ sessionId <= minted
    /\ (confirmed /\ sessionId = SESSION_ID) => minted < MaxSessions
    /\ Commit(deleteChatHistory(Page, sessionId, confirmed),
              IF confirmed THEN "deleteChatHistory" ELSE "deleteDeclined", sessionId)
    /\ UNCHANGED << loaded, now, queries, resets, uploads, uploadProgress, reinitTimers, inits >>

\* resetConversation up to its await: confirm(), then POST /api/reset
ClickReset(confirmed) ==
    /\ loaded
    /\ confirmed => Outstanding < MaxInFlight
    /\ resets' = IF confirmed THEN resets + 1 ELSE resets
    /\ lastOp' = [op |-> IF confirmed THEN "resetConversation" ELSE "resetDeclined",
                  id |-> undefined, fx |-> NoEffects]
    /\ UNCHANGED << loaded, SESSION_ID, chatMessages, localStorage, chatContainer,
                    errorMessage, chatHistory, sendButton, minted, now, queries,
                    uploads, uploadProgress, reinitTimers, inits >>

\* POST /api/reset resolved (ok) or was rejected
ResetDone(ok) ==
    /\ loaded
    /\ resets > 0
    /\ ok => minted < MaxSessions
    /\ Commit(resetConversationEnd(Page, ok),
              IF ok THEN "resetConversationEnd" ELSE "resetFailed", SESSION_ID)
    /\ resets' = resets - 1
    /\ UNCHANGED << loaded, now, queries, uploads, uploadProgress, reinitTimers, inits >>

\* the files the picker may hand to handleFileSelect
Files ==
    { [name |-> n, size |-> sz] :
        n \in { <<"a", ".", "p", "d", "f">>, <<"A", ".", "P", "D", "F">>,
                <<"a", ".", "P", "d", "f">>, <<"a", ".", "d", "o", "c", "x">>,
                <<"p", "d", "f">>, <<"a", ".", "p", "d", "f", ".", "t", "x", "t">> },
        sz \in {10485760, MaxFileSize, MaxFileSize + 1} }
    \cup {NoFile}

\* uploadPDF up to its await: the indicator is shown at 0% and the fake
\* progress timer started
uploadPDFStart(u) ==
    [u EXCEPT !.display = TRUE,
              !.width = 0,
              !.intervals = Append(@, [progress |-> 0, pending |-> TRUE])]

\* the callback of setInterval: progress += 5; if (progress <= 90) the bar follows
progressTick(u, i) ==
    LET progress == u.intervals[i].progress + ProgressStep
    IN  [u EXCEPT !.intervals[i].progress = progress,
                  !.width = IF progress <= ProgressCap THEN progress ELSE @]

\* how the request of an upload may end: a 2xx answer, an answer that is not
\* ok, or fetch rejecting (no answer at all)
UploadOutcomes == {"ok", "http", "network"}

\* uploadPDF after its await.  clearInterval stands behind the await, so a
\* rejected fetch leaves the timer running; the catch branch starts the 3 s timer
uploadPDFEnd(u, i, outcome) ==
    CASE outcome = "ok" -> [u EXCEPT !.intervals = RemoveAt(@, i), !.width = 100]
      [] outcome = "http" -> [u EXCEPT !.intervals = RemoveAt(@, i), !.hideTimers = @ + 1]
      [] OTHER -> [u EXCEPT !.intervals[i].pending = FALSE, !.hideTimers = @ + 1]

\* progressDiv.style.display = 'none'; progressFill.style.width = '0%'
hideProgress(u) == [u EXCEPT !.display = FALSE, !.width = 0]

\* a file the handler uploads and one it rejects, for the runs in which the
\* uploads mix with the chat
SampleFiles ==
    { [name |-> <<"a", ".", "p", "d", "f">>, size |-> 10485760],
      [name |-> <<"a", ".", "d", "o", "c", "x">>, size |-> 10485760] }

\* handleFileSelect and uploadPDF up to its await
FileSelect(file) ==
    /\ loaded
    /\ fileCheck(file) = "upload" => Outstanding < MaxInFlight
    /\ LET picked == [Page EXCEPT !.fx.file = file]
       IN  CASE fileCheck(file) = "upload" ->
                  /\ uploads' = uploads + 1
                  /\ uploadProgress' = uploadPDFStart(uploadProgress)
                  /\ Commit([picked EXCEPT !.fx.requests =
                                 Append(@, Request("/api/upload-pdf", <<>>, 0))],
                            "uploadPDF", undefined)
             [] fileCheck(file) = "none" ->
                  /\ UNCHANGED << uploads, uploadProgress >>
                  /\ Commit(picked, "uploadNone", undefined)
             [] OTHER ->
                  /\ UNCHANGED << uploads, uploadProgress >>
                  /\ Commit(showError(picked, fileCheck(file)), "uploadRejected", undefined)
    /\ UNCHANGED << loaded, now, queries, resets, reinitTimers, inits >>

\* the request of the upload whose timer is the i-th ends
UploadDone(i, outcome) ==
    /\ loaded
    /\ i \in 1..Len(uploadProgress.intervals)
    /\ uploadProgress.intervals[i].pending
    /\ uploads' = uploads - 1
    /\ uploadProgress' = uploadPDFEnd(uploadProgress, i, outcome)
    /\ IF outcome = "ok"
       THEN /\ reinitTimers' = reinitTimers + 1
            /\ Commit(Page, "uploadDone", undefined)
       ELSE /\ reinitTimers' = reinitTimers
            /\ Commit(showError(Page, "upload-failed"), "uploadFailed", undefined)
    /\ UNCHANGED << loaded, now, queries, resets, inits >>

\* the 2 s timer of a successful upload fires: initialize() runs again and the
\* indicator is hidden
Reinitialize ==
    /\ loaded
    /\ reinitTimers > 0
    /\ Commit(initializeStart(Page), "reinitialize", undefined)
    /\ uploadProgress' = hideProgress(uploadProgress)
    /\ reinitTimers' = reinitTimers - 1
    /\ inits' = inits + 1
    /\ UNCHANGED << loaded, now, queries, resets, uploads >>

\* the 3 s timer of a failed upload fires: the indicator is hidden
HideProgress ==
    /\ loaded
    /\ uploadProgress.hideTimers > 0
    /\ uploadProgress' = hideProgress([uploadProgress EXCEPT !.hideTimers = @ - 1])
    /\ lastOp' = [op |-> "hideProgress", id |-> undefined, fx |-> NoEffects]
    /\ UNCHANGED << loaded, SESSION_ID, chatMessages, localStorage, chatContainer,
                    errorMessage, chatHistory, sendButton, minted, now, queries, resets,
                    uploads, reinitTimers, inits >>

\* the i-th fake progress timer fires (a timer past the cap no longer shows)
ProgressTick(i) ==
    /\ loaded
    /\ i \in 1..Len(uploadProgress.intervals)
    /\ uploadProgress.intervals[i].progress <= ProgressCap
    /\ uploadProgress' = progressTick(uploadProgress, i)
    /\ lastOp' = [op |-> "progressTick", id |-> undefined, fx |-> NoEffects]
    /\ UNCHANGED << loaded, SESSION_ID, chatMessages, localStorage, chatContainer,
                    errorMessage, chatHistory, sendButton, minted, now, queries, resets,
                    uploads, reinitTimers, inits >>

\* the 5 s timer of showError fires
ErrorTimeout ==
    /\ errorMessage.visible
    /\ errorMessage' = [visible |-> FALSE]
    /\ lastOp' = [op |-> "errorTimeout", id |-> undefined, fx |-> NoEffects]
    /\ UNCHANGED << loaded, SESSION_ID, chatMessages, localStorage, chatContainer,
                    chatHistory, sendButton, minted, now, queries, resets, uploads, uploadProgress,
                    reinitTimers, inits >>

\* time passes
Tick ==
    /\ now < MaxClock
    /\ now' = now + 1
    /\ lastOp' = [op |-> "tick", id |-> undefined, fx |-> NoEffects]
    /\ UNCHANGED << loaded, SESSION_ID, chatMessages, localStorage, chatContainer,
                    errorMessage, chatHistory, sendButton, minted, queries, resets,
                    uploads, uploadProgress, reinitTimers, inits >>

\* the chat handlers
Next ==
    \/ PageLoad
    \/ Reload
    \/ \E ok \in BOOLEAN : InitializeDone(ok)
    \/ \E input \in Inputs, w \in WriteRuns : ClickSend(input, w)
    \/ \E input \in Inputs, w \in WriteRuns : PressEnter(input, w)
    \/ \E t \in QuickActionTypes, w \in WriteRuns : ClickQuickAction(t, w)
    \/ \E i \in 1..MaxInFlight, reply \in Replies, w \in WriteRuns : QueryDone(i, reply, w)
    \/ \E sessionId \in SessionIds : SwitchSession(sessionId)
    \/ \E sessionId \in SessionIds, confirmed \in BOOLEAN : DeleteSession(sessionId, confirmed)
    \/ \E confirmed \in BOOLEAN : ClickReset(confirmed)
    \/ \E ok \in BOOLEAN : ResetDone(ok)
    \/ ErrorTimeout

\* the chat handlers and the upload handlers
NextFull ==
    \/ Next
    \/ \E file \in SampleFiles : FileSelect(file)
    \/ \E i \in 1..MaxInFlight, outcome \in UploadOutcomes : UploadDone(i, outcome)
    \/ Reinitialize
    \/ HideProgress

Spec == Init /\ [][Next]_vars

SpecFull == Init /\ [][NextFull]_vars

\* --------------------------------------------- long conversations (trimming)
\* a page that has exchanged n messages in session 1, every save accepted
LongConversation(n) ==
    /\ loaded = TRUE
    /\ SESSION_ID = 1
    /\ chatMessages = LongList(n)
    /\ localStorage = [ chat_session_id |-> 1,
                        chat_history |-> [k \in Keys |->
                            IF k = 1 THEN History(LongList(n), 0, 1) ELSE Absent],
                        order |-> KeyOrder ]
    /\ chatContainer = [welcome |-> FALSE, messages |-> RenderAll(LongList(n)), loading |-> 0]
    /\ errorMessage = [visible |-> FALSE]
    /\ chatHistory = getAllChatHistories(localStorage, 0, 1)
    /\ sendButton = [disabled |-> FALSE]
    /\ minted = 1
    /\ now = 0
    /\ queries = <<>>
    /\ resets = 0
    /\ uploads = 0
    /\ uploadProgress = NoProgress
    /\ reinitTimers = 0
    /\ inits = 0
    /\ lastOp = [op |-> "none", id |-> undefined, fx |-> NoEffects]

InitTrim == \E n \in (TrimLimit - 1)..(TrimLimit + 1) : LongConversation(n)

\* the handlers that add messages to the list, and the no-op switch
NextTrim ==
    \/ \E input \in Inputs, w \in WriteRuns : ClickSend(input, w)
    \/ \E input \in Inputs, w \in WriteRuns : PressEnter(input, w)
    \/ \E i \in 1..MaxInFlight, reply \in Replies, w \in WriteRuns : QueryDone(i, reply, w)
    \/ \E sessionId \in SessionIds : SwitchSession(sessionId)
    \/ ErrorTimeout

SpecTrim == InitTrim /\ [][NextTrim]_vars

\* ------------------------------------------- arbitrary storage (the sidebar)
\* what may be found under a history key: nothing, records with and without
\* messages, with and without a date, and the malformed ones
ItemSamples(key) ==
    { Absent,
      History(<<>>, 0, key),
      History(<<Message(<<Word("quiz-please")>>, TRUE)>>, 1, key),
      History(<<Message(FallbackText, FALSE)>>, 0, key),
      NoDate(<<>>),
      NoDate(<<Message(<<Word("quiz-please")>>, TRUE)>>),
      Malformed("nomessages"),
      Malformed("null"),
      Malformed("unparseable") }

Reverse(seq) == [i \in 1..Len(seq) |-> seq[Len(seq) + 1 - i]]

\* a page about to load over storage of any content, enumerated in either order
InitScan ==
    /\ loaded = FALSE
    /\ FreshPage
    /\ \E a \in ItemSamples(1), b \in ItemSamples(2), ptr \in {null, 1},
          ord \in {KeyOrder, Reverse(KeyOrder)} :
          localStorage = [ chat_session_id |-> ptr,
                           chat_history |-> [k \in Keys |->
                               CASE k = 1 -> a [] k = 2 -> b [] OTHER -> Absent],
                           order |-> ord ]
    /\ minted = 2
    /\ now = 0
    /\ lastOp = [op |-> "none", id |-> undefined, fx |-> NoEffects]

\* the handlers that render the sidebar without adding messages, and the clock
NextScan ==
    \/ PageLoad
    \/ \E ok \in BOOLEAN : InitializeDone(ok)
    \/ \E sessionId \in SessionIds : SwitchSession(sessionId)
    \/ \E sessionId \in SessionIds, confirmed \in BOOLEAN : DeleteSession(sessionId, confirmed)
    \/ ErrorTimeout
    \/ Tick

SpecScan == InitScan /\ [][NextScan]_vars

\* ------------------------------------------------ answers of any text (markers)
\* answers the server may send: without a marker, with one, with the same one
\* twice, with a page of two digits, with brackets that are no marker, and with
\* markers written into one another
RenderTexts ==
    { <<Word("a1")>>,
      <<Word("a1")>> \o ImageTag("guide.pdf", 3),
      ImageTag("guide.pdf", 3) \o <<Blank>> \o ImageTag("guide.pdf", 3),
      <<Lit("[IMA"), Lit("GE:"), Word("guide.pdf"), Lit("|"), Digit(1), Digit(2), Lit("]")>>,
      <<Lit("[IMA"), Lit("GE:"), Word("guide.pdf"), Lit("]")>>,
      <<Lit("[IMA")>> \o ImageTag("a.pdf", 1)
          \o <<Lit("GE:"), Word("b.pdf"), Lit("|"), Digit(2), Lit("]")>>,
      <<Lit("[IMA"), Lit("GE:"), Word("x"), Blank>> \o ImageTag("guide.pdf", 3) }

RenderReplies == { [ok |-> TRUE, answer |-> a] : a \in RenderTexts }

\* a first visit, loaded and initialized, its banner timed out
InitRender ==
    /\ loaded = TRUE
    /\ SESSION_ID = 1
    /\ chatMessages = <<>>
    /\ localStorage = [EmptyStorage EXCEPT !.chat_session_id = 1]
    /\ chatContainer = WelcomeScreen
    /\ errorMessage = [visible |-> FALSE]
    /\ chatHistory = <<>>
    /\ sendButton = [disabled |-> FALSE]
    /\ minted = 1
    /\ now = 0
    /\ queries = <<>>
    /\ resets = 0
    /\ uploads = 0
    /\ uploadProgress = NoProgress
    /\ reinitTimers = 0
    /\ inits = 0
    /\ lastOp = [op |-> "none", id |-> undefined, fx |-> NoEffects]

\* questions, answers of any text, and reloads
NextRender ==
    \/ \E input \in Inputs, w \in WriteRuns : ClickSend(input, w)
    \/ \E i \in 1..MaxInFlight, reply \in RenderReplies, w \in WriteRuns : QueryDone(i, reply, w)
    \/ Reload
    \/ PageLoad
    \/ \E ok \in BOOLEAN : InitializeDone(ok)
    \/ ErrorTimeout

SpecRender == InitRender /\ [][NextRender]_vars

\* ------------------------------------------------ uploads, one after another
\* a file is picked while no upload request is outstanding; requests end in
\* every way; every timer of uploadPDF and of initialize fires
NextUpload ==
    \/ uploads = 0 /\ \E file \in Files : FileSelect(file)
    \/ \E i \in 1..MaxInFlight, outcome \in UploadOutcomes : UploadDone(i, outcome)
    \/ \E i \in 1..MaxInFlight : ProgressTick(i)
    \/ Reinitialize
    \/ HideProgress
    \/ \E ok \in BOOLEAN : InitializeDone(ok)
    \/ ErrorTimeout

SpecUpload == InitRender /\ [][NextUpload]_vars

\* ------------------------------ loads, sends and switches, every save accepted
\* no delete, no reset, and every setItem of a record succeeds
NextSend ==
    \/ PageLoad
    \/ Reload
    \/ \E ok \in BOOLEAN : InitializeDone(ok)
    \/ \E input \in Inputs : ClickSend(input, <<"ok">>)
    \/ \E input \in Inputs : PressEnter(input, <<"ok">>)
    \/ \E i \in 1..MaxInFlight, reply \in Replies : QueryDone(i, reply, <<"ok">>)
    \/ \E sessionId \in SessionIds : SwitchSession(sessionId)
    \/ ErrorTimeout

SpecSend == Init /\ [][NextSend]_vars

\* ------------------------------------------- every request is answered in time
\* a question is accepted while the transcript has room for it and for the
\* replies still to come
HasRoom == Added(chatMessages) + Len(queries) + 2 <= MaxMessages

\* a first visit on which questions are sent, sessions deleted, reset and
\* switched, and every request of /api/query is answered or fails in the end
NextLive ==
    \/ \E input \in Inputs, w \in WriteRuns :
          (IsAccepted(input) => HasRoom) /\ ClickSend(input, w)
    \/ \E input \in Inputs, w \in WriteRuns :
          (IsAccepted(input) => HasRoom) /\ PressEnter(input, w)
    \/ \E i \in 1..MaxInFlight, reply \in Replies, w \in WriteRuns : QueryDone(i, reply, w)
    \/ \E sessionId \in SessionIds : SwitchSession(sessionId)
    \/ \E sessionId \in SessionIds, confirmed \in BOOLEAN : DeleteSession(sessionId, confirmed)
    \/ \E confirmed \in BOOLEAN : ClickReset(confirmed)
    \/ \E ok \in BOOLEAN : ResetDone(ok)
    \/ ErrorTimeout

SpecLive ==
    /\ InitRender
    /\ [][NextLive]_vars
    /\ WF_vars(\E i \in 1..MaxInFlight, reply \in Replies, w \in WriteRuns :
                  QueryDone(i, reply, w))

\* ----------------------------------------------------------------- claims
\* what the record stored for a session holds
StoredItem(key) == localStorage.chat_history[key]
StoredMessages(key) == messagesOrEmpty(StoredItem(key))
IsStored(key) == StoredItem(key).kind # "absent"

\* C1: persistence round trip.  When the page has been loaded again, the
\* in-memory message list and the rendered transcript are exactly the messages
\* stored for the session the pointer names, in stored order.
C1_ReloadRestoresMessages ==
    lastOp.op = "load" =>
        /\ chatMessages = StoredMessages(SESSION_ID)
        /\ chatContainer.messages = RenderAll(StoredMessages(SESSION_ID))

\* C2: a stored history record disappears from storage only in a confirmed
\* deleteChatHistory for that very session.
C2_OnlyDeleteRemovesRecord ==
    [][ \A key \in Keys :
          (IsStored(key) /\ localStorage'.chat_history[key].kind = "absent")
              => (lastOp'.op = "deleteChatHistory" /\ lastOp'.id = key) ]_vars

\* C3: a confirmed deleteChatHistory of the active session leaves one active
\* session, a newly minted one, in memory and under the pointer alike, with an
\* empty message list, the welcome screen, and no record of the deleted session.
C3_DeleteActiveStartsFresh ==
    [][ (lastOp'.op = "deleteChatHistory" /\ lastOp'.id = SESSION_ID) =>
          /\ SESSION_ID' = localStorage'.chat_session_id
          /\ SESSION_ID' # SESSION_ID
          /\ SESSION_ID' > minted
          /\ chatMessages' = <<>>
          /\ chatContainer' = WelcomeScreen
          /\ localStorage'.chat_history[SESSION_ID].kind = "absent" ]_vars

\* C3 witness: the active session, which had a record, has just been deleted
C3_Witness ==
    /\ lastOp.op = "deleteChatHistory"
    /\ lastOp.fx.cleared
    /\ lastOp.id \in lastOp.fx.removed

\* C4: once initialize has run, the pointer chat_session_id is stored and names
\* the in-memory active session.
C4_PointerIsActiveSession ==
    loaded => /\ localStorage.chat_session_id # null
              /\ localStorage.chat_session_id = SESSION_ID

\* C4 witness: the page has switched to another session while an upload's
\* re-initialization is pending
C4_Witness ==
    /\ loaded
    /\ lastOp.op = "loadChatHistory"
    /\ lastOp.fx.cleared
    /\ reinitTimers > 0

\* C5: at most one query request and at most one upload request is outstanding
\* at any time.
C5_OneRequestOfEachKind == Len(queries) <= 1 /\ uploads <= 1

\* C6: trim policy.  When a save of more than TrimLimit messages fails on quota
\* and the retry is accepted, the record of the active session holds exactly the
\* last TrimLimit messages of the list that was being saved, in their order.
C6_TrimKeepsLastFifty ==
    [][ (lastOp'.op \in {"sendQuestion", "sendQuestionEnd", "sendQuestionFailed"}
         /\ lastOp'.fx.saves = <<"quota", "ok">>) =>
          LET full == Append(chatMessages, chatMessages'[Len(chatMessages')])
              item == localStorage'.chat_history[SESSION_ID']
          IN  /\ Len(full) > TrimLimit
              /\ item.kind = "ok"
              /\ Len(item.messages) = TrimLimit
              /\ \A i \in 1..TrimLimit :
                    item.messages[i] = full[Len(full) - TrimLimit + i] ]_vars

\* C6 witness: a save has just failed on quota, trimmed, and been accepted
C6_Witness ==
    /\ lastOp.fx.saves = <<"quota", "ok">>
    /\ Len(StoredMessages(SESSION_ID)) = TrimLimit
    /\ Len(chatContainer.messages) > TrimLimit

\* C7: loadChatHistory(sessionId) with the id of the active session reads and
\* writes no storage, and leaves the message list, the message view and every
\* other part of the page as it was.
C7_SwitchToActiveIsNoOp ==
    [][ (lastOp'.op = "loadChatHistory" /\ lastOp'.id = SESSION_ID) =>
          /\ lastOp'.fx = NoEffects
          /\ UNCHANGED << SESSION_ID, chatMessages, localStorage, chatContainer,
                          errorMessage, chatHistory, sendButton >> ]_vars

\* C7 witness: the entry of the active session, which has messages on screen,
\* was clicked and nothing was done
C7_Witness ==
    /\ lastOp.op = "loadChatHistory"
    /\ lastOp.id = SESSION_ID
    /\ lastOp.fx = NoEffects
    /\ chatContainer.messages # <<>>

\* C8: a switch to another session that has a stored record makes that session
\* the active one in memory and under the pointer, makes its stored messages the
\* message list, and makes the transcript exactly those messages in stored order.
C8_SwitchLoadsStoredSession ==
    [][ (/\ lastOp'.op = "loadChatHistory"
         /\ lastOp'.id # SESSION_ID
         /\ StoredItem(lastOp'.id).kind = "ok") =>
          /\ SESSION_ID' = lastOp'.id
          /\ localStorage'.chat_session_id = lastOp'.id
          /\ chatMessages' = StoredItem(lastOp'.id).messages
          /\ Len(chatContainer'.messages) = Len(chatMessages')
          /\ \A i \in 1..Len(chatMessages') :
                chatContainer'.messages[i] =
                    messageDiv(chatMessages'[i].text, chatMessages'[i].isUser)
          /\ ~chatContainer'.welcome
          /\ chatContainer'.loading = 0 ]_vars

\* C8 witness: a switch away from a session with messages on screen has loaded
\* another session's messages
C8_Witness ==
    /\ lastOp.op = "loadChatHistory"
    /\ lastOp.fx.cleared
    /\ lastOp.id = SESSION_ID
    /\ Len(chatMessages) = 2
    /\ \E other \in SessionIds : other # SESSION_ID /\ IsStored(other)

\* C9: a switch to a session without a stored record shows an error and leaves
\* the active session, the pointer, the message list and the transcript alone.
C9_SwitchToMissingFails ==
    [][ (/\ lastOp'.op = "loadChatHistory"
         /\ lastOp'.id # SESSION_ID
         /\ ~IsStored(lastOp'.id)) =>
          /\ lastOp'.fx.errors # <<>>
          /\ errorMessage'.visible
          /\ UNCHANGED << SESSION_ID, chatMessages, chatContainer >>
          /\ localStorage'.chat_session_id = localStorage.chat_session_id ]_vars

\* C9 witness: a switch has just failed on a missing record while the active
\* session shows messages
C9_Witness ==
    /\ lastOp.op = "loadChatHistory"
    /\ lastOp.fx.errors = <<"history-not-found">>
    /\ lastOp.id # SESSION_ID
    /\ chatMessages # <<>>


\* C10: whatever storage holds, getAllChatHistories returns a summary only for
\* a session whose stored record has a message list that is not empty; so does
\* the sidebar that was rendered from it.
C10_NoEmptySessionListed ==
    LET listed == getAllChatHistories(localStorage, now, SESSION_ID)
        HasMessages(h) ==
            /\ StoredItem(h.sessionId).kind \in {"ok", "nodate"}
            /\ Len(StoredItem(h.sessionId).messages) > 0
            /\ h.messageCount > 0
    IN  /\ \A i \in 1..Len(listed) : HasMessages(listed[i])
        /\ \A i \in 1..Len(chatHistory) : HasMessages(chatHistory[i])

\* C10 witness: the sidebar has been rendered over storage that holds a record
\* with an empty message list beside a record with messages
C10_Witness ==
    /\ lastOp.op = "initializeEnd"
    /\ Len(chatHistory) = 1
    /\ \E key \in SessionIds :
          StoredItem(key).kind \in {"ok", "nodate"} /\ StoredItem(key).messages = <<>>


\* C11: whatever records storage holds and in whatever order it enumerates its
\* keys, the list getAllChatHistories returns, and the sidebar rendered from it,
\* run from the most recent lastUpdated to the oldest.
C11_ListedMostRecentFirst ==
    LET listed == getAllChatHistories(localStorage, now, SESSION_ID)
        Descending(hs) ==
            \A i \in 1..Len(hs) : \A j \in i..Len(hs) :
                hs[i].lastUpdated >= hs[j].lastUpdated
    IN  Descending(listed) /\ Descending(chatHistory)

\* C11 witness: the sidebar shows two sessions of different dates that storage
\* enumerates oldest first
C11_Witness ==
    LET scanned == scanKeys(localStorage, localStorage.order, now, SESSION_ID)
    IN  /\ Len(chatHistory) = 2
        /\ Len(scanned) = 2
        /\ scanned[1].lastUpdated < scanned[2].lastUpdated
        /\ chatHistory[1].sessionId = scanned[2].sessionId


\* C12: when the page has loaded and the record of the current session is
\* absent or cannot be parsed, the in-memory message list is empty and no error
\* is shown to the user.
C12_LoadFailureIsSilent ==
    (lastOp.op = "load" /\ StoredItem(SESSION_ID).kind \in {"absent", "unparseable"}) =>
        /\ chatMessages = <<>>
        /\ lastOp.fx.errors = <<>>
        /\ errorMessage.visible = FALSE


\* C13: a send or a reply whose save fails (on quota or otherwise) still has its
\* message at the end of the in-memory list (of which trimming can only have
\* dropped older messages) and of the rendered transcript, shows
\* no error for the failure, and lets its caller run on: sendQuestion goes on to
\* disable the button and issue the request, the reply handler appends its one
\* message (the catch branch is not entered a second time) and enables the button.
C13_SaveFailureIsSilent ==
    [][ (lastOp'.op \in {"sendQuestion", "sendQuestionEnd", "sendQuestionFailed"}
         /\ lastOp'.fx.saves # <<>>
         /\ lastOp'.fx.saves[1] # "ok") =>
          LET n == Len(chatMessages')
              msg == chatMessages'[n]
              full == Append(chatMessages, msg)
              shown == chatContainer'.messages
          IN  /\ n > 0
              /\ \E k \in 1..Len(full) : chatMessages' = SubSeq(full, k, Len(full))
              /\ shown = Append(chatContainer.messages, messageDiv(msg.text, msg.isUser))
              /\ IF lastOp'.op = "sendQuestion"
                 THEN /\ lastOp'.fx.errors = <<>>
                      /\ errorMessage' = errorMessage
                      /\ msg.isUser
                      /\ sendButton'.disabled
                      /\ Len(queries') = Len(queries) + 1
                 ELSE /\ lastOp'.fx.errors \in { <<>>, <<"error-occurred">> }
                      /\ (lastOp'.fx.errors = <<>>) = (msg.text # FallbackText)
                      /\ ~msg.isUser
                      /\ ~sendButton'.disabled ]_vars

\* C13 witness: a save has just failed for good, on quota and otherwise
C13_Witness ==
    /\ lastOp.op \in {"sendQuestion", "sendQuestionEnd", "sendQuestionFailed"}
    /\ lastOp.fx.saves \in { <<"other">>, <<"quota">>, <<"quota", "quota">> }
    /\ chatMessages # StoredMessages(SESSION_ID)


\* C14: handleFileSelect given a file whose name does not end in .pdf, in
\* whatever case, or whose size is above 50 MB issues no request and shows one
\* error; given any other file it issues exactly one request, to /api/upload-pdf.
C14_UploadOnlySmallPdf ==
    [][ (lastOp'.op \in {"uploadPDF", "uploadRejected", "uploadNone"}
         /\ lastOp'.fx.file # NoFile) =>
          LET file == lastOp'.fx.file
              n == Len(file.name)
              DotPdf == { <<".", p, d, f>> : p \in {"p", "P"}, d \in {"d", "D"}, f \in {"f", "F"} }
              namedPdf == n >= 4 /\ \E v \in DotPdf : \A i \in 1..4 : file.name[n - 4 + i] = v[i]
          IN  IF namedPdf /\ file.size <= 50 * 1024 * 1024
              THEN /\ lastOp'.fx.requests = <<Request("/api/upload-pdf", <<>>, 0)>>
                   /\ uploads' = uploads + 1
                   /\ lastOp'.fx.errors = <<>>
              ELSE /\ lastOp'.fx.requests = <<>>
                   /\ uploads' = uploads
                   /\ Len(lastOp'.fx.errors) = 1
                   /\ errorMessage'.visible ]_vars

\* C14 witness: a file of exactly 50 MB with an upper-case name has been sent
C14_Witness ==
    /\ lastOp.op = "uploadPDF"
    /\ lastOp.fx.file = [name |-> <<"A", ".", "P", "D", "F">>, size |-> 50 * 1024 * 1024]
    /\ uploads = 1


\* C15: when a query request fails, the loading indicator of the request is
\* removed, the error banner is shown, the one fallback bot message is appended
\* to the in-memory list and to the transcript (and, its save accepted, to the
\* stored record), the send button is enabled, and no request is issued.
C15_FailedQueryFallsBack ==
    [][ lastOp'.op = "sendQuestionFailed" =>
          /\ chatContainer'.loading = IF chatContainer.loading > 0
                                      THEN chatContainer.loading - 1 ELSE 0
          /\ Len(queries) = 1 => chatContainer'.loading = 0
          /\ errorMessage'.visible
          /\ Len(lastOp'.fx.errors) = 1
          /\ chatMessages' = Append(chatMessages, [text |-> FallbackText, isUser |-> FALSE])
          /\ chatContainer'.messages =
                Append(chatContainer.messages,
                       [text |-> FallbackText, isUser |-> FALSE, images |-> <<>>])
          /\ lastOp'.fx.saves = <<"ok">> =>
                localStorage'.chat_history[SESSION_ID'].messages = chatMessages'
          /\ lastOp'.fx.requests = <<>>
          /\ Len(queries') = Len(queries) - 1
          /\ ~sendButton'.disabled ]_vars

\* C15 witness: the only outstanding query has failed after its question was
\* saved, and the fallback message has been saved behind the question
C15_Witness ==
    /\ lastOp.op = "sendQuestionFailed"
    /\ lastOp.fx.saves = <<"ok">>
    /\ queries = <<>>
    /\ StoredItem(SESSION_ID).kind = "ok"
    /\ Len(StoredMessages(SESSION_ID)) = 2
    /\ StoredMessages(SESSION_ID)[1].isUser


\* C16: sendQuestion with an input that is empty or all white space shows an
\* error and does nothing else: it issues no request, writes nothing to storage,
\* and leaves the message list, the transcript and the send button as they were.
C16_BlankInputRejected ==
    [][ (lastOp'.op = "sendQuestion"
         /\ \A i \in 1..Len(lastOp'.fx.input) : lastOp'.fx.input[i] = Blank) =>
          /\ Len(lastOp'.fx.errors) = 1
          /\ errorMessage'.visible
          /\ lastOp'.fx.requests = <<>>
          /\ queries' = queries
          /\ lastOp'.fx.writes = 0
          /\ localStorage' = localStorage
          /\ chatMessages' = chatMessages
          /\ chatContainer' = chatContainer
          /\ sendButton' = sendButton
          /\ SESSION_ID' = SESSION_ID ]_vars

\* C16 witness: white space has been submitted with Enter while the send button
\* was disabled by an outstanding query
C16_Witness ==
    /\ lastOp.op = "sendQuestion"
    /\ lastOp.fx.input = <<Blank>>
    /\ lastOp.fx.errors # <<>>
    /\ sendButton.disabled
    /\ Len(queries) = 1


\* C17: when a bot message has been rendered, every marker [IMAGE:filename|page]
\* of its text has caused one request to the images endpoint for its filename
\* and page (so the requests for a pair are as many as the markers naming it,
\* and there are no others), and the text displayed holds no marker.
C17_MarkersFetchedAndHidden ==
    lastOp.op = "sendQuestionEnd" =>
        LET text == chatMessages[Len(chatMessages)].text
            shown == chatContainer.messages[Len(chatContainer.messages)].text
            fetched == lastOp.fx.requests
            \* [IMAGE: at i, then a filename without a bar, the bar at b, digits, ] at e
            IsMarker(t, i, b, e) ==
                /\ i + 2 < b /\ b + 1 < e /\ e <= Len(t)
                /\ t[i] = Lit("[IMA") /\ t[i + 1] = Lit("GE:")
                /\ \A k \in (i + 2)..(b - 1) : t[k] # Lit("|")
                /\ t[b] = Lit("|")
                /\ \A k \in (b + 1)..(e - 1) : t[k].kind = "digit"
                /\ t[e] = Lit("]")
            Markers(t) ==
                { m \in (1..Len(t)) \X (1..Len(t)) \X (1..Len(t)) :
                    IsMarker(t, m[1], m[2], m[3]) }
            PageOf(t, m) ==
                LET value[k \in m[2]..(m[3] - 1)] ==
                        IF k = m[2] THEN 0 ELSE value[k - 1] * 10 + t[k].n
                IN  value[m[3] - 1]
            Pair(t, m) == Request("/api/images", SubSeq(t, m[1] + 2, m[2] - 1), PageOf(t, m))
        IN  /\ Len(fetched) = Cardinality(Markers(text))
            /\ \A m \in Markers(text) :
                  Cardinality({ k \in 1..Len(fetched) : fetched[k] = Pair(text, m) })
                      = Cardinality({ o \in Markers(text) : Pair(text, o) = Pair(text, m) })
            /\ Markers(shown) = {}


\* C18: the upload indicator, over uploads made one after another.  While an
\* upload request is outstanding the bar shown is at 90% at most; the step in
\* which the request succeeds puts the bar at 100%; and a bar shown at 100%
\* stays there until the indicator is hidden (or a new upload starts it afresh).
C18_ProgressCappedThenFull ==
    [][ /\ (uploads' > 0 /\ uploadProgress'.display) => uploadProgress'.width <= 90
        /\ lastOp'.op = "uploadDone" => uploadProgress'.width = 100
        /\ (uploadProgress.display /\ uploadProgress.width = 100
            /\ lastOp'.op # "uploadPDF") =>
              (uploadProgress'.width = 100 \/ ~uploadProgress'.display) ]_vars


\* C19: with an unparseable record in storage, getAllChatHistories still returns
\* one summary, with the right message count, for every record that is well
\* formed and has messages, and none for the unparseable one.
C19_MalformedRecordSkipped ==
    LET listed == getAllChatHistories(localStorage, now, SESSION_ID)
        WellFormed(key) ==
            /\ StoredItem(key).kind \in {"ok", "nodate"}
            /\ StoredItem(key).messages # <<>>
        SummariesOf(key) == { i \in 1..Len(listed) : listed[i].sessionId = key }
    IN  (\E key \in Keys : StoredItem(key).kind = "unparseable") =>
            \A key \in Keys :
                /\ WellFormed(key) =>
                      /\ Cardinality(SummariesOf(key)) = 1
                      /\ \A i \in SummariesOf(key) :
                            listed[i].messageCount = Len(StoredItem(key).messages)
                /\ StoredItem(key).kind = "unparseable" => SummariesOf(key) = {}

\* C19 witness: storage enumerates an unparseable record before a record with
\* messages, and the sidebar has been rendered with the latter
C19_Witness ==
    /\ StoredItem(1).kind = "unparseable"
    /\ StoredItem(2).kind = "ok"
    /\ StoredMessages(2) # <<>>
    /\ localStorage.order = KeyOrder
    /\ lastOp.op = "initializeEnd"
    /\ Len(chatHistory) = 1
    /\ chatHistory[1].sessionId = 2


\* C20: when a query is answered (or fails), the answer or the fallback message
\* is stored only in the record of the session the question was sent from: the
\* record of every other session is left as it was.
C20_ReplyStoredWhereAsked ==
    [][ lastOp'.op \in {"sendQuestionEnd", "sendQuestionFailed"} =>
          \A key \in SessionIds :
              key # lastOp'.id =>
                  localStorage'.chat_history[key] = localStorage.chat_history[key] ]_vars


\* C21: with page loads, sends and switches only, and every save accepted, an
\* accepted send leaves the record of the active session as it was before the
\* send with the new user message appended: no stored message is lost.
C21_SendKeepsStoredMessages ==
    [][ (lastOp'.op = "sendQuestion" /\ IsAccepted(lastOp'.fx.input)) =>
          /\ SESSION_ID' = SESSION_ID
          /\ messagesOrEmpty(localStorage'.chat_history[SESSION_ID]) =
                Append(StoredMessages(SESSION_ID),
                       Message(trim(lastOp'.fx.input), TRUE)) ]_vars


\* C22: one call of saveChatHistory makes at most two setItem attempts, the
\* second only after a quota failure of the first, also when both fail with
\* quota-exceeded; a list of 50 or fewer messages is never written a second time.
C22_AtMostOneRetry ==
    [][ lastOp'.fx.saves # <<>> =>
          /\ Len(lastOp'.fx.saves) <= 2
          /\ lastOp'.fx.writes = Len(lastOp'.fx.saves)
          /\ Len(lastOp'.fx.saves) = 2 => lastOp'.fx.saves[1] = "quota"
          /\ Len(chatMessages) + 1 <= TrimLimit => Len(lastOp'.fx.saves) = 1 ]_vars

\* C22 witness: a save of a list of 51 or more messages has failed twice with
\* quota-exceeded and stopped there, the list trimmed to 50
C22_Witness ==
    /\ lastOp.fx.saves = <<"quota", "quota">>
    /\ lastOp.fx.writes = 2
    /\ Len(chatMessages) = TrimLimit


\* C23: an accepted send appends the user message to the list at once and
\* issues one request; the answer or the failure of a request appends exactly
\* one bot message (the answer, or the fallback) and enables the send button;
\* and, requests being answered in the end, a page with a request outstanding
\* comes to have none outstanding and its send button enabled.
C23_SendThenOneReply ==
    /\ [][ /\ (lastOp'.op = "sendQuestion" /\ IsAccepted(lastOp'.fx.input)) =>
                /\ chatMessages' =
                      Append(chatMessages, Message(trim(lastOp'.fx.input), TRUE))
                /\ Len(queries') = Len(queries) + 1
           /\ lastOp'.op = "sendQuestionEnd" =>
                /\ \E a \in Answers : chatMessages' = Append(chatMessages, Message(a, FALSE))
                /\ Len(queries') = Len(queries) - 1
                /\ ~sendButton'.disabled
           /\ lastOp'.op = "sendQuestionFailed" =>
                /\ chatMessages' = Append(chatMessages, Message(FallbackText, FALSE))
                /\ Len(queries') = Len(queries) - 1
                /\ ~sendButton'.disabled ]_vars
    /\ (queries # <<>>) ~> (queries = <<>> /\ ~sendButton.disabled)

\* C23 witness: the only request of the page has just been answered; the list
\* holds the question and, after it, the answer, and the button is enabled
C23_Witness ==
    /\ lastOp.op = "sendQuestionEnd"
    /\ queries = <<>>
    /\ ~sendButton.disabled
    /\ Len(chatMessages) = 2
    /\ chatMessages[1].isUser
    /\ chatMessages[2] \in { Message(a, FALSE) : a \in Answers }


\* C24: whenever no request and no timer is outstanding, the messages rendered
\* in the transcript are the rendering of the in-memory message list, in the
\* same order and of the same length.
C24_TranscriptShowsTheList ==
    (loaded /\ Outstanding = 0) => chatContainer.messages = RenderAll(chatMessages)


\* C25: a declined deleteChatHistory changes nothing; a confirmed one for a
\* session that is not the active one removes that session's record and leaves
\* the active session id, the pointer, the message list, the transcript and
\* the record of every other session as they were.
C25_DeleteOtherTouchesOnlyItsRecord ==
    [][ /\ lastOp'.op = "deleteDeclined" =>
              UNCHANGED << SESSION_ID, chatMessages, localStorage, chatContainer,
                           errorMessage, chatHistory, sendButton, minted >>
        /\ (lastOp'.op = "deleteChatHistory" /\ lastOp'.id # SESSION_ID) =>
              /\ UNCHANGED << SESSION_ID, chatMessages, chatContainer, minted >>
              /\ localStorage'.chat_session_id = localStorage.chat_session_id
              /\ localStorage'.chat_history[lastOp'.id] = Absent
              /\ \A key \in Keys :
                    key # lastOp'.id =>
                        localStorage'.chat_history[key] = localStorage.chat_history[key]
      ]_vars

\* C25 witness: the record of a session that is not the active one has just
\* been deleted while the active session shows messages and has its own record
C25_Witness ==
    /\ lastOp.op = "deleteChatHistory"
    /\ lastOp.id # SESSION_ID
    /\ lastOp.fx.removed = {lastOp.id}
    /\ ~lastOp.fx.cleared
    /\ chatMessages # <<>>
    /\ chatContainer.messages = RenderAll(chatMessages)
    /\ IsStored(SESSION_ID)
    /\ localStorage.chat_session_id = SESSION_ID


\* C26: when initialize runs again after a successful upload, the active
\* session id, the pointer, the message list and the transcript stay as they
\* were, and the call shows no error.
C26_ReinitializeLeavesConversation ==
    [][ lastOp'.op = "reinitialize" =>
          /\ UNCHANGED << SESSION_ID, chatMessages, chatContainer >>
          /\ localStorage'.chat_session_id = localStorage.chat_session_id
          /\ lastOp'.fx.errors = <<>> ]_vars


\* C27: a loadChatHistory(sessionId) that fails (it shows an error), whatever
\* the record it found, leaves the active session id, the pointer and the
\* message list as they were.
C27_FailedSwitchChangesNothing ==
    [][ (lastOp'.op = "loadChatHistory" /\ lastOp'.fx.errors # <<>>) =>
          /\ UNCHANGED << SESSION_ID, chatMessages >>
          /\ localStorage'.chat_session_id = localStorage.chat_session_id ]_vars


\* C28: once the request of an upload has ended, in whichever way, the fake
\* progress timer of that upload is stopped: a timer that fires and changes the
\* width of the progress bar belongs to an upload whose request is outstanding.
C28_TimerStopsWithUpload ==
    [][ (lastOp'.op = "progressTick" /\ uploadProgress'.width # uploadProgress.width) =>
          \A i \in 1..Len(uploadProgress.intervals) :
              uploadProgress'.intervals[i].progress # uploadProgress.intervals[i].progress
                  => uploadProgress.intervals[i].pending ]_vars

====
